---- MODULE Spec2Model ----
(***************************************************************************)
(* PatchEngine (Source/Core/Core/PatchEngine.cpp): the OnFrame patch       *)
(* loader, the speedhack table, the stack-sanity probe and the per-frame   *)
(* patch applier, as a state machine.                                      *)
(*                                                                         *)
(* Representation.                                                         *)
(*  - A std::string is a sequence of one-character strings.                *)
(*  - A u32 is a pair <<hi, lo>> of 16-bit halves (TLC's integers are      *)
(*    32-bit signed, so a u32 does not fit in one of them); all u32        *)
(*    arithmetic below is done on the halves, modulo 2^32.                 *)
(*  - An int (the speedhack cycle count) is a TLC integer.                 *)
(***************************************************************************)
EXTENDS Integers, Sequences, FiniteSets, TLC

VARIABLES
  globalIni,      \* default game ini: [OnFrame, OnFrame_Enabled : Seq(string)]
  localIni,       \* user game ini:    [OnFrame, OnFrame_Enabled : Seq(string)]
  merged,         \* merged ini, section Speedhacks: Seq([key, value : string])
  bBrawlMusicOff, \* SConfig::GetInstance().bBrawlMusicOff
  onFrame,        \* static std::vector<Patch> onFrame
  speedHacks,     \* static std::map<u32, int> speedHacks
  arActive,       \* ActionReplay has applied (active) codes
  geckoActive,    \* Gecko has active codes
  MSR,            \* [DR, IR : BOOLEAN], the two translation bits of MSR
  GPR1,           \* GPR(1), the stack pointer
  mem,            \* guest memory words, read by HostRead_U32
  lifecycle,      \* "Idle" or "Loaded"
  loads,          \* LoadPatches calls since the last Shutdown
  everLoaded,     \* LoadPatches has run at least once
  lastOp,         \* the operation that ran last
  ret,            \* what it returned: Void, [value : BOOLEAN] or [addr, cycles]
  trace,          \* the external calls it made, in order
  retries,        \* the scheduler's view: false returns of the tick in a row
  reloadPC        \* "none", or "loading": Reload() is between its two calls

vars == <<globalIni, localIni, merged, bBrawlMusicOff, onFrame, speedHacks,
          arActive, geckoActive, MSR, GPR1, mem, lifecycle, loads, everLoaded,
          lastOp, ret, trace, retries, reloadPC>>

config == <<globalIni, localIni, merged, bBrawlMusicOff>>
engine == <<onFrame, speedHacks, arActive, geckoActive, lifecycle, loads, everLoaded>>
machine == <<MSR, GPR1, mem>>
callers == <<retries, reloadPC>>

(***************************************************************************)
(* u32 arithmetic on 16-bit halves                                         *)
(***************************************************************************)
Half == 2^16

U32(hi, lo) == <<hi, lo>>

Zero32 == U32(0, 0)

\* a + n modulo 2^32, for 0 <= n < 2^16
AddU32(a, n) == U32((a[1] + ((a[2] + n) \div Half)) % Half, (a[2] + n) % Half)

\* a <= b as unsigned 32-bit numbers
LeU32(a, b) == a[1] < b[1] \/ (a[1] = b[1] /\ a[2] <= b[2])

\* (u8)v and (u16)v, zero-extended back to the u32 argument of the write
TruncU8(v) == U32(0, v[2] % 2^8)

TruncU16(v) == U32(0, v[2])

\* a conversion to int that saturates at the largest int instead of
\* wrapping
ToInt_Saturating(v) == IF v[1] >= 2^15 THEN 2147483647 ELSE v[1] * Half + v[2]

\* (int)v: the two's-complement reading of the 32 bits
ToInt(v) == IF v[1] >= 2^15 THEN (v[1] - Half) * Half + v[2] ELSE v[1] * Half + v[2]

(***************************************************************************)
(* Strings                                                                 *)
(***************************************************************************)
\* s.substr(from) with from counted from 1
SubStrFrom(s, from) == SubSeq(s, from, Len(s))

\* position of the first occurrence of c in s, 0 when there is none
FindChar(s, c) ==
  IF \E i \in 1..Len(s) : s[i] = c
  THEN CHOOSE i \in 1..Len(s) : s[i] = c /\ \A j \in 1..(i - 1) : s[j] # c
  ELSE 0

LowerDigits == <<"0", "1", "2", "3", "4", "5", "6", "7", "8", "9",
                 "a", "b", "c", "d", "e", "f">>

UpperDigits == <<"0", "1", "2", "3", "4", "5", "6", "7", "8", "9",
                 "A", "B", "C", "D", "E", "F">>

\* value of a digit character, 99 for any other character
DigitVal(c) ==
  IF \E i \in 1..16 : LowerDigits[i] = c
  THEN (CHOOSE i \in 1..16 : LowerDigits[i] = c) - 1
  ELSE IF \E i \in 1..16 : UpperDigits[i] = c
       THEN (CHOOSE i \in 1..16 : UpperDigits[i] = c) - 1
       ELSE 99

\* acc * base + digits of s from position i on; ok is FALSE on a character
\* that is no digit of the base or when the value leaves 32 bits
RECURSIVE ParseDigits(_, _, _, _)
ParseDigits(s, i, base, acc) ==
  IF ~acc.ok \/ i > Len(s) THEN acc
  ELSE LET d  == DigitVal(s[i])
           lo == acc.val[2] * base + d
           hi == acc.val[1] * base + (lo \div Half)
       IN  IF d >= base \/ hi >= Half
           THEN [ok |-> FALSE, val |-> Zero32]
           ELSE ParseDigits(s, i + 1, base, [ok |-> TRUE, val |-> U32(hi, lo % Half)])

\* TryParse(const std::string&, u32*): the whole string is one unsigned
\* number, 0x/0X-prefixed hexadecimal, 0-prefixed octal, or decimal
TryParse(s) ==
  LET start == [ok |-> TRUE, val |-> Zero32]
      fail  == [ok |-> FALSE, val |-> Zero32]
  IN  IF Len(s) = 0 THEN fail
      ELSE IF Len(s) >= 2 /\ s[1] = "0" /\ s[2] \in {"x", "X"}
           THEN IF Len(s) = 2 THEN fail ELSE ParseDigits(s, 3, 16, start)
           ELSE IF Len(s) >= 2 /\ s[1] = "0"
                THEN ParseDigits(s, 2, 8, start)
                ELSE ParseDigits(s, 1, 10, start)

\* the pieces of s between occurrences of delim, the last one included
RECURSIVE Pieces(_, _)
Pieces(s, delim) ==
  LET p == FindChar(s, delim)
  IN  IF p = 0 THEN <<s>>
      ELSE <<SubSeq(s, 1, p - 1)>> \o Pieces(SubStrFrom(s, p + 1), delim)

\* SplitString(str, delim): std::getline until it fails, so a final empty
\* piece (string empty, or ending in delim) is not returned
SplitString(s, delim) ==
  LET ps == Pieces(s, delim)
  IN  IF ps[Len(ps)] = <<>> THEN SubSeq(ps, 1, Len(ps) - 1) ELSE ps

(***************************************************************************)
(* Patch Config Loader                                                     *)
(***************************************************************************)
PATCH_8BIT == 0

PATCH_16BIT == 1

PATCH_32BIT == 2

\* const char* PatchTypeStrings[] = {"byte", "word", "dword"}
PatchTypeStrings == << <<"b", "y", "t", "e">>, <<"w", "o", "r", "d">>,
                       <<"d", "w", "o", "r", "d">> >>

\* std::find over the first two strings only
FindPatchType_TwoStrings(tok) ==
  IF \E i \in 1..2 : PatchTypeStrings[i] = tok
  THEN (CHOOSE i \in 1..2 : PatchTypeStrings[i] = tok) - 1
  ELSE 3

\* std::find(PatchTypeStrings, PatchTypeStrings + 3, tok) - PatchTypeStrings:
\* 0, 1 or 2 for an exact match, 3 (one past the end) otherwise
FindPatchType(tok) ==
  IF \E i \in 1..3 : PatchTypeStrings[i] = tok
  THEN (CHOOSE i \in 1..3 : PatchTypeStrings[i] = tok) - 1
  ELSE 3

\* Patch currentPatch; at the top of the loop over one ini
NewPatch == [name |-> <<>>, entries |-> <<>>, active |-> FALSE, user_defined |-> FALSE]

\* the names of the "$name" lines of a section
DollarNames(lines) ==
  {SubStrFrom(lines[i], 2) : i \in {j \in 1..Len(lines) : Len(lines[j]) # 0 /\ lines[j][1] = "$"}}

\* enabledNames read from both inis
EnabledNames_Both(gIni, lIni) ==
  DollarNames(gIni.OnFrame_Enabled) \cup DollarNames(lIni.OnFrame_Enabled)

\* enabledNames: read from localIni's OnFrame_Enabled alone
EnabledNames(gIni, lIni) == DollarNames(lIni.OnFrame_Enabled)

\* the else branch without the replacement of '=' by ':'
ParseEntryLine_NoNormalise(line) ==
  LET items == SplitString(line, ":")
  IN  IF Len(items) >= 3
      THEN LET a == TryParse(items[1])
               v == TryParse(items[3])
               t == FindPatchType(items[2])
           IN  [ok    |-> a.ok /\ v.ok /\ t # 3,
                entry |-> [type |-> t, address |-> a.val, value |-> v.val]]
      ELSE [ok |-> FALSE, entry |-> [type |-> 3, address |-> Zero32, value |-> Zero32]]

\* the else branch without "success &= (pE.type != (PatchType)3)"
ParseEntryLine_NoTypeCheck(line) ==
  LET loc   == FindChar(line, "=")
      fixed == IF loc # 0 THEN [line EXCEPT ![loc] = ":"] ELSE line
      items == SplitString(fixed, ":")
  IN  IF Len(items) >= 3
      THEN LET a == TryParse(items[1])
               v == TryParse(items[3])
               t == FindPatchType(items[2])
           IN  [ok    |-> a.ok /\ v.ok,
                entry |-> [type |-> t, address |-> a.val, value |-> v.val]]
      ELSE [ok |-> FALSE, entry |-> [type |-> 3, address |-> Zero32, value |-> Zero32]]

\* the else branch of the line loop: [ok, entry] for one entry line
ParseEntryLine(line) ==
  LET loc   == FindChar(line, "=")
      fixed == IF loc # 0 THEN [line EXCEPT ![loc] = ":"] ELSE line
      items == SplitString(fixed, ":")
  IN  IF Len(items) >= 3
      THEN LET a == TryParse(items[1])
               v == TryParse(items[3])
               t == FindPatchType(items[2])
           IN  [ok    |-> a.ok /\ v.ok /\ t # 3,
                entry |-> [type |-> t, address |-> a.val, value |-> v.val]]
      ELSE [ok |-> FALSE, entry |-> [type |-> 3, address |-> Zero32, value |-> Zero32]]

\* "Take care of the previous code": what a marker line pushes
CommitOnMarker(cur, patches) ==
  IF Len(cur.name) # 0 THEN Append(patches, cur) ELSE patches

\* what the end of an ini pushes
CommitAtEnd(cur, patches) ==
  IF Len(cur.name) # 0 /\ Len(cur.entries) # 0 THEN Append(patches, cur) ELSE patches

\* the active flag of a patch named name
ActiveFlag(name, enabledNames) == name \in enabledNames

\* one iteration of the line loop on st = [cur, patches]
ScanLine(st, line, enabledNames, isLocal) ==
  IF Len(line) = 0 THEN st
  ELSE IF line[1] = "$"
       THEN LET name == SubStrFrom(line, 2)
            IN  [cur     |-> [name         |-> name,
                              entries      |-> <<>>,
                              active       |-> ActiveFlag(name, enabledNames),
                              user_defined |-> isLocal],
                 patches |-> CommitOnMarker(st.cur, st.patches)]
       ELSE LET pe == ParseEntryLine(line)
            IN  IF pe.ok
                THEN [st EXCEPT !.cur.entries = Append(@, pe.entry)]
                ELSE st

RECURSIVE ScanLines(_, _, _, _, _)
ScanLines(st, lines, i, enabledNames, isLocal) ==
  IF i > Len(lines) THEN st
  ELSE ScanLines(ScanLine(st, lines[i], enabledNames, isLocal), lines, i + 1,
                 enabledNames, isLocal)

\* the body of "for (const IniFile* ini : inis)" for one ini
LoadIniPatches(patches, lines, enabledNames, isLocal) ==
  LET st == ScanLines([cur |-> NewPatch, patches |-> patches], lines, 1,
                      enabledNames, isLocal)
  IN  CommitAtEnd(st.cur, st.patches)

\* LoadPatchSection with currentPatch declared outside the loop over the
\* inis, so that it lives on from globalIni into localIni
LoadPatchSection_SharedCurrentPatch(patches, gIni, lIni) ==
  LET enabledNames == EnabledNames(gIni, lIni)
      st1 == ScanLines([cur |-> NewPatch, patches |-> patches], gIni.OnFrame, 1,
                       enabledNames, FALSE)
      p1  == CommitAtEnd(st1.cur, st1.patches)
      st2 == ScanLines([cur |-> st1.cur, patches |-> p1], lIni.OnFrame, 1,
                       enabledNames, TRUE)
  IN  CommitAtEnd(st2.cur, st2.patches)

\* LoadPatchSection in which a patch of localIni replaces the patches of
\* globalIni that have its name
LoadPatchSection_OverrideReplaces(patches, gIni, lIni) ==
  LET enabledNames == EnabledNames(gIni, lIni)
      fromGlobal   == LoadIniPatches(<<>>, gIni.OnFrame, enabledNames, FALSE)
      fromLocal    == LoadIniPatches(<<>>, lIni.OnFrame, enabledNames, TRUE)
      replaced(p)  == \E k \in 1..Len(fromLocal) : fromLocal[k].name = p.name
  IN  patches \o SelectSeq(fromGlobal, LAMBDA p : ~replaced(p)) \o fromLocal

\* LoadPatchSection("OnFrame", patches, globalIni, localIni)
LoadPatchSection(patches, gIni, lIni) ==
  LET enabledNames == EnabledNames(gIni, lIni)
      afterGlobal  == LoadIniPatches(patches, gIni.OnFrame, enabledNames, FALSE)
  IN  LoadIniPatches(afterGlobal, lIni.OnFrame, enabledNames, TRUE)

(***************************************************************************)
(* Speedhack Table Loader                                                  *)
(***************************************************************************)
EmptyMap == [a \in {} |-> 0]

\* m[k] = v on a std::map
MapPut(m, k, v) == [x \in (DOMAIN m) \cup {k} |-> IF x = k THEN v ELSE m[x]]

BOGUS == <<"B", "O", "G", "U", "S">>

\* the loop body that stores whenever the key parses, without testing the
\* parse of the value
LoadSpeedhackKey_ValueUnchecked(table, kv) ==
  IF kv.value # BOGUS
  THEN LET address == TryParse(kv.key)
           cycles  == TryParse(kv.value)
       IN  IF address.ok
           THEN MapPut(table, address.val, ToInt(cycles.val))
           ELSE table
  ELSE table

\* the loop body with std::map::insert, which keeps an existing element
LoadSpeedhackKey_KeepFirst(table, kv) ==
  IF kv.value # BOGUS
  THEN LET address == TryParse(kv.key)
           cycles  == TryParse(kv.value)
       IN  IF address.ok /\ cycles.ok /\ address.val \notin DOMAIN table
           THEN MapPut(table, address.val, ToInt(cycles.val))
           ELSE table
  ELSE table

\* the body of the loop over the keys, for one key and its value
LoadSpeedhackKey(table, kv) ==
  IF kv.value # BOGUS
  THEN LET address == TryParse(kv.key)
           cycles  == TryParse(kv.value)
       IN  IF address.ok /\ cycles.ok
           THEN MapPut(table, address.val, ToInt(cycles.val))
           ELSE table
  ELSE table

\* LoadSpeedhacks("Speedhacks", merged): keys scanned in GetKeys order
RECURSIVE LoadSpeedhacksFrom(_, _, _)
LoadSpeedhacksFrom(table, keys, i) ==
  IF i > Len(keys) THEN table
  ELSE LoadSpeedhacksFrom(LoadSpeedhackKey(table, keys[i]), keys, i + 1)

LoadSpeedhacks(table, keys) == LoadSpeedhacksFrom(table, keys, 1)

\* the lookup of GetSpeedhackCycles in a table
LookupCycles(table, addr) == IF addr \in DOMAIN table THEN table[addr] ELSE 0

(***************************************************************************)
(* Address-space probe: the emulated machine as PatchEngine sees it        *)
(***************************************************************************)
\* one external call: [op, addr, value]
Call(op, addr, value) == [op |-> op, addr |-> addr, value |-> value]

\* the guest addresses of the model
LowMem    == U32(0, 0)        \* 0x00000000
StackBase == U32(32768, 0)    \* 0x80000000
StackNext == U32(32768, 4)    \* 0x80000004
PastRAM   == U32(32768, 8)    \* 0x80000008
TopMem    == U32(65535, 65532) \* 0xFFFFFFFC

Words == {LowMem, StackBase, StackNext, PastRAM, TopMem}

\* the addresses translation maps to RAM, for data and for instructions
RAMAddrs == {LowMem, StackBase, StackNext, TopMem}

IRAMAddrs == {StackBase, StackNext}

HostIsRAMAddress(a) == a \in RAMAddrs

HostIsInstructionRAMAddress(a) == a \in IRAMAddrs

HostRead_U32(a) == IF a \in DOMAIN mem THEN mem[a] ELSE Zero32

(***************************************************************************)
(* Machine-state probe                                                     *)
(***************************************************************************)
\* IsStackSane without the RAM check of next_SP + 4
IsStackSane_LinkUnchecked ==
  LET SP       == GPR1
      q1       == <<Call("HostIsRAMAddress", SP, Zero32)>>
      next_SP  == HostRead_U32(SP)
      q2       == q1 \o <<Call("HostRead_U32", SP, Zero32)>>
      q3       == q2 \o <<Call("HostIsRAMAddress", next_SP, Zero32)>>
      address  == HostRead_U32(AddU32(next_SP, 4))
      q5       == q3 \o <<Call("HostRead_U32", AddU32(next_SP, 4), Zero32),
                          Call("HostIsInstructionRAMAddress", address, Zero32)>>
      q6       == q5 \o <<Call("HostRead_U32", address, Zero32)>>
  IN  IF ~HostIsRAMAddress(SP) THEN [ret |-> FALSE, log |-> q1]
      ELSE IF LeU32(next_SP, SP) THEN [ret |-> FALSE, log |-> q2]
      ELSE IF ~HostIsRAMAddress(next_SP) THEN [ret |-> FALSE, log |-> q3]
      ELSE IF ~HostIsInstructionRAMAddress(address) THEN [ret |-> FALSE, log |-> q5]
      ELSE [ret |-> HostRead_U32(address) # Zero32, log |-> q6]

\* IsStackSane with next_SP < SP in place of next_SP <= SP
IsStackSane_AllowEqual ==
  LET SP       == GPR1
      next_SP  == HostRead_U32(SP)
      address  == HostRead_U32(AddU32(next_SP, 4))
  IN  IF ~HostIsRAMAddress(SP) THEN [ret |-> FALSE, log |-> <<>>]
      ELSE IF LeU32(next_SP, SP) /\ next_SP # SP THEN [ret |-> FALSE, log |-> <<>>]
      ELSE IF ~HostIsRAMAddress(next_SP) THEN [ret |-> FALSE, log |-> <<>>]
      ELSE IF ~HostIsRAMAddress(AddU32(next_SP, 4)) THEN [ret |-> FALSE, log |-> <<>>]
      ELSE IF ~HostIsInstructionRAMAddress(address) THEN [ret |-> FALSE, log |-> <<>>]
      ELSE [ret |-> HostRead_U32(address) # Zero32, log |-> <<>>]

\* IsStackSane(): [ret, log], log the probe's calls in order
IsStackSane ==
  LET SP       == GPR1
      q1       == <<Call("HostIsRAMAddress", SP, Zero32)>>
      next_SP  == HostRead_U32(SP)
      q2       == q1 \o <<Call("HostRead_U32", SP, Zero32)>>
      q3       == q2 \o <<Call("HostIsRAMAddress", next_SP, Zero32)>>
      q4       == q3 \o <<Call("HostIsRAMAddress", AddU32(next_SP, 4), Zero32)>>
      address  == HostRead_U32(AddU32(next_SP, 4))
      q5       == q4 \o <<Call("HostRead_U32", AddU32(next_SP, 4), Zero32),
                          Call("HostIsInstructionRAMAddress", address, Zero32)>>
      q6       == q5 \o <<Call("HostRead_U32", address, Zero32)>>
  IN  IF ~HostIsRAMAddress(SP) THEN [ret |-> FALSE, log |-> q1]
      ELSE IF LeU32(next_SP, SP) THEN [ret |-> FALSE, log |-> q2]
      ELSE IF ~HostIsRAMAddress(next_SP) THEN [ret |-> FALSE, log |-> q3]
      ELSE IF ~HostIsRAMAddress(AddU32(next_SP, 4)) THEN [ret |-> FALSE, log |-> q4]
      ELSE IF ~HostIsInstructionRAMAddress(address) THEN [ret |-> FALSE, log |-> q5]
      ELSE [ret |-> HostRead_U32(address) # Zero32, log |-> q6]

(***************************************************************************)
(* Patch applier                                                           *)
(***************************************************************************)
MusicOffName == <<"[", "P", "+", "]", " ", "M", "u", "s", "i", "c", " ", "O", "f", "f">>

\* IsEnabledMusicCode(patch): true when the setting is on and the name
\* matches; otherwise control flows off the end of a bool function, which is
\* undefined behaviour: the caller sees either value (fallOff)
IsEnabledMusicCode(patch, fallOff) ==
  IF bBrawlMusicOff /\ patch.name = MusicOffName THEN TRUE ELSE fallOff

\* the condition of the if in ApplyPatches, for the patch at index i
PatchSelected(patches, i, fallOff) ==
  patches[i].active \/ IsEnabledMusicCode(patches[i], fallOff[i])

\* the switch without the (u8) and (u16) casts of the value
EntryWrite_NoCast(entry) ==
  IF entry.type = PATCH_8BIT
  THEN <<Call("HostWrite_U8", entry.address, entry.value)>>
  ELSE IF entry.type = PATCH_16BIT
       THEN <<Call("HostWrite_U16", entry.address, entry.value)>>
       ELSE IF entry.type = PATCH_32BIT
            THEN <<Call("HostWrite_U32", entry.address, entry.value)>>
            ELSE <<>>

\* the switch on entry.type: the write one entry issues
EntryWrite(entry) ==
  IF entry.type = PATCH_8BIT
  THEN <<Call("HostWrite_U8", entry.address, TruncU8(entry.value))>>
  ELSE IF entry.type = PATCH_16BIT
       THEN <<Call("HostWrite_U16", entry.address, TruncU16(entry.value))>>
       ELSE IF entry.type = PATCH_32BIT
            THEN <<Call("HostWrite_U32", entry.address, entry.value)>>
            ELSE <<>>

RECURSIVE EntryWrites(_, _)
EntryWrites(entries, j) ==
  IF j > Len(entries) THEN <<>>
  ELSE EntryWrite(entries[j]) \o EntryWrites(entries, j + 1)

\* ApplyPatches(patches): the writes it issues, in order
RECURSIVE ApplyPatchesFrom(_, _, _)
ApplyPatchesFrom(patches, i, fallOff) ==
  IF i > Len(patches) THEN <<>>
  ELSE (IF PatchSelected(patches, i, fallOff) THEN EntryWrites(patches[i].entries, 1)
        ELSE <<>>)
       \o ApplyPatchesFrom(patches, i + 1, fallOff)

ApplyPatches(patches, fallOff) == ApplyPatchesFrom(patches, 1, fallOff)

\* the two interpreter calls in the other order
RunCodeHandlers_ARFirst ==
  <<Call("ActionReplay::RunAllActive", Zero32, Zero32),
    Call("Gecko::RunCodeHandler", Zero32, Zero32)>>

\* the calls of the two code interpreters after ApplyPatches
RunCodeHandlers ==
  <<Call("Gecko::RunCodeHandler", Zero32, Zero32),
    Call("ActionReplay::RunAllActive", Zero32, Zero32)>>

\* ApplyFramePatches that patches first and probes the stack afterwards
FramePatchResult_PatchBeforeProbe(fallOff) ==
  IF ~MSR.DR \/ ~MSR.IR THEN [ret |-> FALSE, trace |-> <<>>]
  ELSE [ret   |-> IsStackSane.ret,
        trace |-> ApplyPatches(onFrame, fallOff) \o IsStackSane.log]

\* ApplyFramePatches that probes the stack before it tests the two flags
FramePatchResult_ProbeFirst(fallOff) ==
  IF ~IsStackSane.ret \/ ~MSR.DR \/ ~MSR.IR
  THEN [ret |-> FALSE, trace |-> IsStackSane.log]
  ELSE [ret   |-> TRUE,
        trace |-> IsStackSane.log \o ApplyPatches(onFrame, fallOff) \o RunCodeHandlers]

\* ApplyFramePatches that gives up once the tick has returned false twice in
\* a row
FramePatchResult_GiveUp(fallOff) ==
  IF retries >= 2 \/ ~MSR.DR \/ ~MSR.IR \/ ~IsStackSane.ret
  THEN [ret |-> FALSE, trace |-> <<>>]
  ELSE [ret   |-> TRUE,
        trace |-> IsStackSane.log \o ApplyPatches(onFrame, fallOff) \o RunCodeHandlers]

\* ApplyFramePatches(): [ret, trace]
FramePatchResult(fallOff) ==
  IF ~MSR.DR \/ ~MSR.IR THEN [ret |-> FALSE, trace |-> <<>>]
  ELSE LET sane == IsStackSane
       IN  IF ~sane.ret THEN [ret |-> FALSE, trace |-> sane.log]
           ELSE [ret   |-> TRUE,
                 trace |-> sane.log \o ApplyPatches(onFrame, fallOff) \o RunCodeHandlers]

(***************************************************************************)
(* Engine lifecycle                                                        *)
(***************************************************************************)
MaxLoads == 2

\* a call of an interpreter entry point that takes inis or a code list
CodeCall(op, args) == [op |-> op, args |-> args]

\* what LoadPatches asks of the interpreters: ActionReplay loads and applies
\* the codes of the two inis, Gecko loads them and makes them its active codes
LoadCalls ==
  <<CodeCall("ActionReplay::LoadAndApplyCodes", <<globalIni, localIni>>),
    CodeCall("Gecko::LoadCodes", <<globalIni, localIni>>),
    CodeCall("Gecko::SetActiveCodes", <<"Gecko::LoadCodes">>)>>

\* what Shutdown asks of them: ActionReplay applies the empty code list,
\* Gecko shuts down
ShutdownCalls ==
  <<CodeCall("ActionReplay::ApplyCodes", <<>>),
    CodeCall("Gecko::Shutdown", <<>>)>>

\* Shutdown without Gecko::Shutdown()
ShutdownState_NoGeckoShutdown(e) ==
  [onFrame |-> <<>>, speedHacks |-> EmptyMap, arActive |-> FALSE, geckoActive |-> e.geckoActive,
   calls |-> e.calls \o <<CodeCall("ActionReplay::ApplyCodes", <<>>)>>]

\* the engine's own state and the two interpreters', as one record; calls
\* are the interpreter calls of the operation under way
EngineState ==
  [onFrame |-> onFrame, speedHacks |-> speedHacks,
   arActive |-> arActive, geckoActive |-> geckoActive, calls |-> <<>>]

\* Shutdown without onFrame.clear()
ShutdownState_KeepPatches(e) ==
  [onFrame |-> e.onFrame, speedHacks |-> EmptyMap, arActive |-> FALSE, geckoActive |-> FALSE,
   calls |-> e.calls \o ShutdownCalls]

\* Shutdown without speedHacks.clear()
ShutdownState_KeepSpeedHacks(e) ==
  [onFrame |-> <<>>, speedHacks |-> e.speedHacks, arActive |-> FALSE, geckoActive |-> FALSE,
   calls |-> e.calls \o ShutdownCalls]

\* Shutdown()
ShutdownState(e) ==
  [onFrame |-> <<>>, speedHacks |-> EmptyMap, arActive |-> FALSE, geckoActive |-> FALSE,
   calls |-> e.calls \o ShutdownCalls]

\* LoadPatches that starts from an empty collection
LoadPatchesState_ClearsFirst(e) ==
  [onFrame     |-> LoadPatchSection(<<>>, globalIni, localIni),
   speedHacks  |-> LoadSpeedhacks(e.speedHacks, merged),
   arActive    |-> TRUE,
   geckoActive |-> TRUE,
   calls       |-> e.calls \o LoadCalls]

\* LoadPatches(): the three inis are read again on every call
LoadPatchesState(e) ==
  [onFrame     |-> LoadPatchSection(e.onFrame, globalIni, localIni),
   speedHacks  |-> LoadSpeedhacks(e.speedHacks, merged),
   arActive    |-> TRUE,
   geckoActive |-> TRUE,
   calls       |-> e.calls \o LoadCalls]

\* Reload seen after its Shutdown() and before its LoadPatches()
ReloadState_ShutdownOnly(e) == ShutdownState(e)

\* Reload without its Shutdown()
ReloadState_NoShutdown(e) == LoadPatchesState(e)

\* Reload(): Shutdown(); LoadPatches();
ReloadState(e) == LoadPatchesState(ShutdownState(e))

Install(e) ==
  /\ onFrame' = e.onFrame
  /\ speedHacks' = e.speedHacks
  /\ arActive' = e.arActive
  /\ geckoActive' = e.geckoActive

\* the return value of a void function
Void == [void |-> TRUE]

Returned(op, r, t) == lastOp' = op /\ ret' = r /\ trace' = t

LoadPatches ==
  /\ loads < MaxLoads
  /\ Install(LoadPatchesState(EngineState))
  /\ lifecycle' = "Loaded"
  /\ loads' = loads + 1
  /\ everLoaded' = TRUE
  /\ Returned("LoadPatches", Void, LoadPatchesState(EngineState).calls)
  /\ UNCHANGED <<config, machine, callers>>

Shutdown ==
  /\ Install(ShutdownState(EngineState))
  /\ lifecycle' = "Idle"
  /\ loads' = 0
  /\ UNCHANGED everLoaded
  /\ Returned("Shutdown", Void, ShutdownState(EngineState).calls)
  /\ UNCHANGED <<config, machine, callers>>

Reload ==
  /\ Install(ReloadState(EngineState))
  /\ lifecycle' = "Loaded"
  /\ loads' = 1
  /\ everLoaded' = TRUE
  /\ Returned("Reload", Void, ReloadState(EngineState).calls)
  /\ UNCHANGED <<config, machine, callers>>

\* Reload(), first statement: Shutdown(); the caller is then between the two
\* statements, and nothing in the file keeps a tick from running there
ReloadShutdown ==
  /\ reloadPC = "none"
  /\ Install(ShutdownState(EngineState))
  /\ lifecycle' = "Idle"
  /\ loads' = 0
  /\ UNCHANGED everLoaded
  /\ reloadPC' = "loading"
  /\ Returned("Reload.Shutdown", Void, ShutdownState(EngineState).calls)
  /\ UNCHANGED <<config, machine, retries>>

\* Reload(), second statement: LoadPatches(); Reload returns
ReloadLoadPatches ==
  /\ reloadPC = "loading"
  /\ Install(LoadPatchesState(EngineState))
  /\ lifecycle' = "Loaded"
  /\ loads' = 1
  /\ everLoaded' = TRUE
  /\ reloadPC' = "none"
  /\ Returned("Reload", Void, LoadPatchesState(EngineState).calls)
  /\ UNCHANGED <<config, machine, retries>>

\* the patches for which IsEnabledMusicCode is called and falls off its end
FallsOff(patches) ==
  {i \in 1..Len(patches) :
     ~patches[i].active /\ ~(bBrawlMusicOff /\ patches[i].name = MusicOffName)}

\* what the fall-off yields is the build's choice; it is not read where the
\* function is not called or returns at its return statement
FallOffChoices(patches) ==
  {[i \in 1..Len(patches) |-> i \in S] : S \in SUBSET FallsOff(patches)}

\* a tick that returns at line 240 does not reach ApplyPatches, and so calls
\* IsEnabledMusicCode for no patch
TickChoices ==
  IF MSR.DR /\ MSR.IR /\ IsStackSane.ret THEN FallOffChoices(onFrame)
  ELSE {[i \in 1..Len(onFrame) |-> FALSE]}

ApplyFramePatches ==
  \E fallOff \in TickChoices :
    LET r == FramePatchResult(fallOff)
    IN  /\ Returned("ApplyFramePatches", [value |-> r.ret], r.trace)
        /\ UNCHANGED <<config, engine, machine, callers>>

\* GetSpeedhackCycles that reads speedHacks[addr]: the subscript of a
\* std::map inserts a zero entry for a key that is absent
GetSpeedhackCycles_Subscript(addr) ==
  /\ Returned("GetSpeedhackCycles",
              [addr |-> addr, cycles |-> LookupCycles(speedHacks, addr)], <<>>)
  /\ speedHacks' = IF addr \in DOMAIN speedHacks THEN speedHacks
                   ELSE MapPut(speedHacks, addr, 0)
  /\ UNCHANGED <<onFrame, arActive, geckoActive, lifecycle, loads, everLoaded>>
  /\ UNCHANGED <<config, machine, callers>>

\* GetSpeedhackCycles(addr): find() on the table, which stays as it is
GetSpeedhackCycles(addr) ==
  /\ Returned("GetSpeedhackCycles",
              [addr |-> addr, cycles |-> LookupCycles(speedHacks, addr)], <<>>)
  /\ UNCHANGED <<config, engine, machine, callers>>

(***************************************************************************)
(* Inputs: ini contents and machine states the runs are drawn from         *)
(***************************************************************************)
\* all sequences over S of length at most n
SeqsUpTo(S, n) == UNION {[1..k -> S] : k \in 0..n}

\* number strings with the value they denote
Num(str, val) == [str |-> str, val |-> val]

N_0        == Num(<<"0">>, U32(0, 0))
N_7        == Num(<<"7">>, U32(0, 7))
N_16       == Num(<<"1", "6">>, U32(0, 16))
N_0x10     == Num(<<"0", "x", "1", "0">>, U32(0, 16))
N_0x1FF    == Num(<<"0", "x", "1", "F", "F">>, U32(0, 511))
N_0x1FFFF  == Num(<<"0", "x", "1", "F", "F", "F", "F">>, U32(1, 65535))
N_80001234 == Num(<<"0", "x", "8", "0", "0", "0", "1", "2", "3", "4">>, U32(32768, 4660))
N_7FFFFFFF == Num(<<"0", "x", "7", "F", "F", "F", "F", "F", "F", "F">>, U32(32767, 65535))
N_2pow31   == Num(<<"2", "1", "4", "7", "4", "8", "3", "6", "4", "8">>, U32(32768, 0))
N_FFFFFFFF == Num(<<"0", "x", "F", "F", "F", "F", "F", "F", "F", "F">>, U32(65535, 65535))

\* strings that denote no u32
BadNumbers == { <<"z", "z">>, <<"1", "z">>,
                <<"4", "2", "9", "4", "9", "6", "7", "2", "9", "6">> }

S_byte  == <<"b", "y", "t", "e">>
S_word  == <<"w", "o", "r", "d">>
S_dword == <<"d", "w", "o", "r", "d">>
S_Byte  == <<"B", "y", "t", "e">>
S_long  == <<"l", "o", "n", "g">>

NameA == <<"A">>
NameB == <<"B">>

\* "$name"
Marker(name) == <<"$">> \o name

\* "addr<sep>type:value"
EntryLine(addr, sep, type, value) == addr \o <<sep>> \o type \o <<":">> \o value

Ini(lines, enabled) == [OnFrame |-> lines, OnFrame_Enabled |-> enabled]

KV(key, value) == [key |-> key, value |-> value]

\* ---- the lifecycle runs -------------------------------------------------
L_byte   == EntryLine(N_80001234.str, ":", S_byte, N_0x1FF.str)
L_word   == EntryLine(N_16.str, "=", S_word, N_0x1FFFF.str)
L_dword0 == EntryLine(N_80001234.str, ":", S_dword, N_0.str)
L_dword7 == EntryLine(N_80001234.str, ":", S_dword, N_7.str)
L_Byte   == EntryLine(N_16.str, ":", S_Byte, N_7.str)

GlobalSources ==
  { <<>>,
    <<Marker(NameA), L_byte, L_word>>,
    <<Marker(NameA), L_byte, L_Byte, Marker(MusicOffName), L_dword0>> }

LocalSources ==
  { <<>>,
    <<Marker(NameA), L_dword7>> }

LocalEnabled == { <<Marker(NameA)>>, <<Marker(MusicOffName)>> }

GlobalEnabled == { <<Marker(NameA), Marker(MusicOffName)>> }

MergedSources ==
  { <<>>,
    <<KV(N_80001234.str, N_7.str), KV(N_16.str, N_FFFFFFFF.str),
      KV(N_0x10.str, N_16.str), KV(N_7.str, <<"z", "z">>)>> }

\* the addresses GetSpeedhackCycles is asked about
LookupAddrs == {N_80001234.val, N_16.val, N_7.val}

\* memory images: every word of RAM holds one of Words
MemImages == [RAMAddrs -> Words]

\* SP = LowMem: the caller's frame is at StackBase, its return address (the
\* word at StackNext) is StackBase, and the word there is not zero
SaneMem == [a \in RAMAddrs |-> StackBase]

\* the same stack with a zeroed return site
ZeroedMem == [a \in RAMAddrs |-> IF a = StackBase THEN LowMem ELSE StackBase]

\* SP = StackBase: the caller's frame is at TopMem, so its return address
\* is the word at LowMem
WrapMem == [a \in RAMAddrs |-> IF a = StackBase THEN TopMem ELSE StackBase]

Machine(dr, ir, sp, m) == [MSR |-> [DR |-> dr, IR |-> ir], GPR1 |-> sp, mem |-> m]

FrameMachines ==
  { Machine(TRUE, TRUE, LowMem, SaneMem),
    Machine(TRUE, TRUE, LowMem, ZeroedMem),
    Machine(TRUE, TRUE, StackBase, WrapMem),
    Machine(TRUE, TRUE, PastRAM, SaneMem),
    Machine(FALSE, TRUE, LowMem, SaneMem),
    Machine(TRUE, FALSE, LowMem, SaneMem) }

(***************************************************************************)
(* Specifications                                                          *)
(***************************************************************************)
\* nothing loaded yet: the statics are empty
InitEngine ==
  /\ onFrame = <<>>
  /\ speedHacks = EmptyMap
  /\ arActive = FALSE
  /\ geckoActive = FALSE
  /\ lifecycle = "Idle"
  /\ loads = 0
  /\ everLoaded = FALSE
  /\ lastOp = "none"
  /\ ret = Void
  /\ trace = <<>>
  /\ retries = 0
  /\ reloadPC = "none"

InitMachine(M) ==
  \E m \in M : MSR = m.MSR /\ GPR1 = m.GPR1 /\ mem = m.mem

\* the guest runs on: by the next call the machine is in another state
GuestStep ==
  /\ \E m \in FrameMachines :
       /\ <<m.MSR, m.GPR1, m.mem>> # machine
       /\ MSR' = m.MSR /\ GPR1' = m.GPR1 /\ mem' = m.mem
  /\ Returned("GuestStep", Void, <<>>)
  /\ UNCHANGED <<config, engine, callers>>

Lookup == \E addr \in LookupAddrs : GetSpeedhackCycles(addr)

Init ==
  /\ globalIni \in {Ini(l, e) : l \in GlobalSources, e \in GlobalEnabled}
  /\ localIni \in {Ini(l, e) : l \in LocalSources, e \in LocalEnabled}
  /\ merged \in MergedSources
  /\ bBrawlMusicOff \in BOOLEAN
  /\ InitMachine(FrameMachines)
  /\ InitEngine

Next ==
  \/ LoadPatches
  \/ Shutdown
  \/ Reload
  \/ ApplyFramePatches
  \/ Lookup
  \/ GuestStep

Spec == Init /\ [][Next]_vars

\* ---- the probe runs: every machine state, one ini ------------------------
AllMachines ==
  {Machine(dr, ir, sp, m) : dr \in BOOLEAN, ir \in BOOLEAN, sp \in Words, m \in MemImages}

\* patch A enabled, patch B not
ProbeGlobal == Ini(<<Marker(NameA), L_dword0, Marker(NameB), L_word>>, <<>>)

ProbeLocal == Ini(<<>>, <<Marker(NameA)>>)

InitProbe ==
  /\ globalIni = ProbeGlobal
  /\ localIni = ProbeLocal
  /\ merged = <<>>
  /\ bBrawlMusicOff = FALSE
  /\ InitMachine(AllMachines)
  /\ InitEngine

NextProbe ==
  \/ LoadPatches
  \/ ApplyFramePatches

SpecProbe == InitProbe /\ [][NextProbe]_vars

\* ---- the loader runs: many inis, one machine ----------------------------
MaxLines == 2

L_good == EntryLine(N_16.str, ":", S_byte, N_7.str)

\* lines of the marker family: names, an empty name, an entry, a bad entry
MarkerLines == {Marker(NameA), Marker(NameB), <<"$">>, L_good, L_Byte}

\* the enabled lists of the two inis: <<default, override>>
MarkerEnabled ==
  { << <<>>, <<Marker(NameA)>> >>,
    << <<Marker(NameA), Marker(NameB)>>, <<>> >>,
    << <<Marker(NameA), Marker(NameB)>>, <<NameA, Marker(NameB)>> >> }

\* the marker family: the default source any MarkerLines, the override
\* source any of the named markers and the entry, each of the enabled lists
MarkerConfigs ==
  {[g |-> Ini(gl, en[1]), l |-> Ini(ll, en[2])] :
     gl \in SeqsUpTo(MarkerLines, MaxLines),
     ll \in SeqsUpTo(MarkerLines \ {L_Byte, <<"$">>}, MaxLines),
     en \in MarkerEnabled}

Numbers == {N_7, N_0x10, N_80001234, N_0x1FFFF}

NumberStrs == {n.str : n \in Numbers} \cup {<<"z", "z">>}

TypeTokens == {S_byte, S_word, S_dword, S_Byte, S_long}

\* "0x10=word=7", "0x10=word:7:0x1FFFF" and "0x10:word=7"
L_twoEquals == N_0x10.str \o <<"=">> \o S_word \o <<"=">> \o N_7.str

L_equalsFour == EntryLine(N_0x10.str, "=", S_word, N_7.str) \o <<":">> \o N_0x1FFFF.str

L_equalsSecond == N_0x10.str \o <<":">> \o S_word \o <<"=">> \o N_7.str

\* entry lines of every shape: three fields, a fourth field, two fields, and
\* '=' in other places than the first separator
FieldLines ==
  {EntryLine(a, sep, t, v) : a \in NumberStrs, sep \in {":", "="},
                             t \in TypeTokens, v \in NumberStrs}
  \cup {EntryLine(N_0x10.str, ":", S_word, N_7.str) \o <<":">> \o N_0x1FFFF.str,
        N_0x10.str \o <<":">> \o S_word,
        N_0x10.str \o <<":">> \o S_word \o <<":">>,
        N_0x10.str \o <<"=">> \o N_7.str,
        L_twoEquals, L_equalsFour, L_equalsSecond}

\* the entry family: patch A of the default source holds one line of
\* FieldLines, alone or between two other entries
FieldSource(pre, line, post) == <<Marker(NameA)>> \o pre \o <<line>> \o post

FieldPre == {<<>>, <<L_dword0>>}

FieldPost == {<<>>, <<L_byte>>}

FieldConfigs ==
  {[g |-> Ini(IF inLocal THEN <<>> ELSE FieldSource(pre, line, post), <<>>),
    l |-> Ini(IF inLocal THEN FieldSource(pre, line, post) ELSE <<>>, <<Marker(NameA)>>)] :
     line \in FieldLines, pre \in FieldPre, post \in FieldPost, inLocal \in BOOLEAN}

LoadConfigs == MarkerConfigs \cup FieldConfigs

InitLoad ==
  /\ \E c \in LoadConfigs : globalIni = c.g /\ localIni = c.l
  /\ merged = <<>>
  /\ bBrawlMusicOff = FALSE
  /\ InitMachine({Machine(TRUE, TRUE, LowMem, SaneMem)})
  /\ InitEngine

NextLoad ==
  \/ LoadPatches
  \/ Shutdown
  \/ Reload

SpecLoad == InitLoad /\ [][NextLoad]_vars

\* ---- the speedhack runs: many Speedhacks sections -----------------------
MaxKeys == 2

SpeedKeys == {N_16.str, N_0x10.str, N_7.str, <<"z", "z">>}

SpeedValues ==
  {N_0.str, N_7FFFFFFF.str, N_2pow31.str, N_FFFFFFFF.str, <<"z", "z">>, BOGUS}

\* GetKeys returns each key of the section once
SpeedSections ==
  {sec \in SeqsUpTo({KV(k, v) : k \in SpeedKeys, v \in SpeedValues}, MaxKeys) :
     \A i, j \in 1..Len(sec) : i # j => sec[i].key # sec[j].key}

InitSpeed ==
  /\ globalIni = Ini(<<>>, <<>>)
  /\ localIni = Ini(<<>>, <<>>)
  /\ merged \in SpeedSections
  /\ bBrawlMusicOff = FALSE
  /\ InitMachine({Machine(TRUE, TRUE, LowMem, SaneMem)})
  /\ InitEngine

NextSpeed ==
  \/ LoadPatches
  \/ Shutdown
  \/ Reload
  \/ Lookup

SpecSpeed == InitSpeed /\ [][NextSpeed]_vars

\* ---- the interleaved runs: ticks between the two statements of Reload ---
\* a load from outside Reload
LoadOutsideReload == reloadPC = "none" /\ LoadPatches

NextSplit ==
  \/ LoadOutsideReload
  \/ ReloadShutdown
  \/ ReloadLoadPatches
  \/ ApplyFramePatches
  \/ GuestStep

SpecSplit == Init /\ [][NextSplit]_vars

\* what the tick returned, where the last operation was the tick
TickReturned(b) == IF lastOp = "ApplyFramePatches" THEN ret.value = b ELSE FALSE

\* ---- the retry runs: the tick under the scheduler that calls it ----------
MaxRetries == 3

\* after a false return the scheduler lets the guest run a few cycles and
\* calls the tick again; retries counts the false returns, up to MaxRetries
Reschedule ==
  /\ TickReturned(FALSE)
  /\ \E m \in FrameMachines : MSR' = m.MSR /\ GPR1' = m.GPR1 /\ mem' = m.mem
  /\ retries' = IF retries < MaxRetries THEN retries + 1 ELSE retries
  /\ Returned("Reschedule", Void, <<>>)
  /\ UNCHANGED <<config, engine, reloadPC>>

\* after a true return the next call is the next frame's
NextFrame ==
  /\ TickReturned(TRUE)
  /\ \E m \in FrameMachines : MSR' = m.MSR /\ GPR1' = m.GPR1 /\ mem' = m.mem
  /\ retries' = 0
  /\ Returned("NextFrame", Void, <<>>)
  /\ UNCHANGED <<config, engine, reloadPC>>

InitRetry ==
  /\ globalIni = ProbeGlobal
  /\ localIni = ProbeLocal
  /\ merged = <<>>
  /\ bBrawlMusicOff = FALSE
  /\ InitMachine(FrameMachines)
  /\ InitEngine

NextRetry ==
  \/ LoadPatches
  \/ ApplyFramePatches
  \/ Reschedule
  \/ NextFrame

\* the scheduler calls the tick when it is due, and again after a false return
SpecRetry ==
  InitRetry /\ [][NextRetry]_vars /\ WF_vars(ApplyFramePatches) /\ WF_vars(Reschedule)

(***************************************************************************)
(* Properties                                                              *)
(***************************************************************************)
IsWrite(c) == c.op \in {"HostWrite_U8", "HostWrite_U16", "HostWrite_U32"}

IsRun(c) == c.op \in {"Gecko::RunCodeHandler", "ActionReplay::RunAllActive"}

\* the memory writes and interpreter runs of the last operation
Writes == SelectSeq(trace, IsWrite)

Runs == SelectSeq(trace, IsRun)

Ticked == lastOp = "ApplyFramePatches"

\* a + 4 modulo 2^32, by cases on the low half
Plus4(a) ==
  IF a[2] + 4 < 65536 THEN <<a[1], a[2] + 4>>
  ELSE IF a[1] = 65535 THEN <<0, a[2] + 4 - 65536>>
       ELSE <<a[1] + 1, a[2] + 4 - 65536>>

\* a > b as unsigned 32-bit numbers
GtU32(a, b) == a[1] > b[1] \/ (a[1] = b[1] /\ a[2] > b[2])

\* the frame-pointer / return-address chain of the stack at GPR1 is valid
SaneChain ==
  /\ GPR1 \in RAMAddrs
  /\ LET next_SP == mem[GPR1]
     IN  /\ GtU32(next_SP, GPR1)
         /\ next_SP \in RAMAddrs
         /\ Plus4(next_SP) \in RAMAddrs
         /\ LET retaddr == mem[Plus4(next_SP)]
            IN  /\ retaddr \in IRAMAddrs
                /\ mem[retaddr] # <<0, 0>>

\* C1: when a translation flag is off, or GPR1 is no RAM address, or the
\* frame-pointer/return-address chain fails a check, ApplyFramePatches
\* returns false and issues no write and runs neither code interpreter.
C1_UnsafeReturnsFalseNoWrites ==
  (Ticked /\ (~MSR.DR \/ ~MSR.IR \/ ~SaneChain))
    => (ret.value = FALSE /\ Writes = <<>> /\ Runs = <<>>)

\* an unsafe tick with an enabled patch loaded: the flags are on, the chain
\* breaks only at its last check (a zeroed return site)
C1_Witness ==
  /\ Ticked /\ ret.value = FALSE
  /\ MSR.DR /\ MSR.IR /\ GPR1 \in RAMAddrs /\ ~SaneChain
  /\ mem[GPR1] \in RAMAddrs /\ GtU32(mem[GPR1], GPR1)
  /\ Plus4(mem[GPR1]) \in RAMAddrs
  /\ mem[Plus4(mem[GPR1])] \in IRAMAddrs
  /\ \E i \in 1..Len(onFrame) : onFrame[i].active

\* C10: with both flags on, the stack-sanity probe (and so the tick) returns
\* true exactly when SP is RAM, the word at SP is > SP and RAM, that word + 4
\* is RAM, the word there is an instruction-RAM address, and the word at that
\* address is not zero.
C10_ProbeTrueIffChainValid ==
  (Ticked /\ MSR.DR /\ MSR.IR) => (ret.value = SaneChain)

\* the probe succeeded through the wrap of next_SP + 4 at the top of memory
C10_Witness ==
  /\ Ticked /\ MSR.DR /\ MSR.IR /\ ret.value = TRUE
  /\ mem[GPR1] = TopMem

\* the patches and the table one LoadPatches builds from nothing
FreshPatches == LoadPatchSection(<<>>, globalIni, localIni)

FreshSpeedHacks == LoadSpeedhacks(EmptyMap, merged)

\* the writes of the entries of the patches whose active flag is set
RECURSIVE ActiveWritesFrom(_, _)
ActiveWritesFrom(patches, i) ==
  IF i > Len(patches) THEN <<>>
  ELSE (IF patches[i].active THEN EntryWrites(patches[i].entries, 1) ELSE <<>>)
       \o ActiveWritesFrom(patches, i + 1)

\* C2: with both flags on and a sane stack, ApplyFramePatches returns true
\* and writes exactly the entries of the active patches, in patch order and
\* then entry order.
C2_WritesExactlyActiveEntries ==
  (Ticked /\ MSR.DR /\ MSR.IR /\ SaneChain)
    => (ret.value = TRUE /\ Writes = ActiveWritesFrom(onFrame, 1))

\* C3: after Shutdown and until the next load, every address has 0 speedhack
\* cycles and a tick writes nothing, whatever it returns.
C3_ShutdownClears ==
  lifecycle = "Idle" =>
    /\ \A a \in LookupAddrs \cup DOMAIN FreshSpeedHacks : LookupCycles(speedHacks, a) = 0
    /\ (lastOp = "GetSpeedhackCycles" => ret.cycles = 0)
    /\ (Ticked => Writes = <<>>)

\* a tick that returned true after a Shutdown that followed a load of an
\* ini with an enabled patch and a speedhack
C3_Witness ==
  /\ lifecycle = "Idle" /\ everLoaded
  /\ Ticked /\ ret.value = TRUE
  /\ \E i \in 1..Len(FreshPatches) : FreshPatches[i].active
  /\ DOMAIN FreshSpeedHacks # {}

\* C4: after Reload, from whatever state, the patch collection and the
\* speedhack table are the ones a single load of the same inis builds from
\* the idle state.
C4_ReloadEqualsFreshLoad ==
  lastOp = "Reload" => (onFrame = FreshPatches /\ speedHacks = FreshSpeedHacks)

C4_Witness ==
  /\ lastOp = "Reload"
  /\ Len(onFrame) >= 2
  /\ DOMAIN speedHacks # {}

\* C5: every patch of the collection has a name and at least one entry.
C5_PatchesHaveNameAndEntry ==
  \A i \in 1..Len(onFrame) :
    Len(onFrame[i].name) > 0 /\ Len(onFrame[i].entries) > 0

\* the lines of a section, as a set
LineSet(lines) == {lines[i] : i \in 1..Len(lines)}

\* C6: a patch is active exactly when "$" followed by its name is a line of
\* the override ini's OnFrame_Enabled section, whichever ini defined it.
C6_ActiveIffEnabledInOverride ==
  \A i \in 1..Len(onFrame) :
    onFrame[i].active = (<<"$">> \o onFrame[i].name \in LineSet(localIni.OnFrame_Enabled))

\* an active patch of the default ini next to an inactive one whose name
\* the default ini's enabled list holds
C6_Witness ==
  \E i, k \in 1..Len(onFrame) :
    /\ onFrame[i].active /\ ~onFrame[i].user_defined
    /\ ~onFrame[k].active
    /\ <<"$">> \o onFrame[k].name \in LineSet(globalIni.OnFrame_Enabled)

\* what a number string of the speedhack runs denotes
SpeedNumbers == {N_16, N_0x10, N_7, N_0, N_7FFFFFFF, N_2pow31, N_FFFFFFFF}

IsSpeedNumber(str) == \E n \in SpeedNumbers : n.str = str

SpeedValueOf(str) == (CHOOSE n \in SpeedNumbers : n.str = str).val

SpeedCyclesOf(str) ==
  IF str = N_FFFFFFFF.str THEN -1
  ELSE IF str = N_2pow31.str THEN -2147483647 - 1
  ELSE IF str = N_7FFFFFFF.str THEN 2147483647
  ELSE SpeedValueOf(str)[2]

\* the keys of the section that set a table entry for address a
KeysFor(a) ==
  {i \in 1..Len(merged) :
     /\ IsSpeedNumber(merged[i].key) /\ IsSpeedNumber(merged[i].value)
     /\ SpeedValueOf(merged[i].key) = a}

LastOf(I) == CHOOSE i \in I : \A j \in I : j <= i

\* C7: GetSpeedhackCycles returns 0 for an address that no key sets, and
\* otherwise the cycles of the last key scanned that sets it.
C7_LookupZeroOrLastKey ==
  (lastOp = "GetSpeedhackCycles" /\ lifecycle = "Loaded") =>
    ret.cycles = (IF KeysFor(ret.addr) = {} THEN 0
                  ELSE SpeedCyclesOf(merged[LastOf(KeysFor(ret.addr))].value))

\* two keys, "16" and "0x10", set the same address; the later one wins
C7_Witness ==
  /\ lastOp = "GetSpeedhackCycles" /\ lifecycle = "Loaded"
  /\ merged = <<KV(N_16.str, N_7FFFFFFF.str), KV(N_0x10.str, N_FFFFFFFF.str)>>
  /\ ret.addr = N_16.val
  /\ ret.cycles = -1

\* the type a type token names
TypeCode(t) ==
  IF t = S_byte THEN 0 ELSE IF t = S_word THEN 1 ELSE IF t = S_dword THEN 2 ELSE 3

E_dword0 == [type |-> 2, address |-> N_80001234.val, value |-> N_0.val]

E_byte == [type |-> 0, address |-> N_80001234.val, value |-> N_0x1FF.val]

EntriesOf(ls) == IF ls = <<>> THEN <<>> ELSE IF ls = <<L_dword0>> THEN <<E_dword0>> ELSE <<E_byte>>

\* the first load has just run
FirstLoad == lastOp = "LoadPatches" /\ loads = 1

\* the first load has just run on inis of which one has no OnFrame lines,
\* as every ini pair of the entry family has
FirstLoadOfOneSource ==
  FirstLoad /\ (globalIni.OnFrame = <<>> \/ localIni.OnFrame = <<>>)

\* the inis are those of the entry family whose line is "a:t:v"
FieldIni(a, t, v, pre, post, inLocal) ==
  /\ (IF inLocal THEN localIni.OnFrame ELSE globalIni.OnFrame)
       = FieldSource(pre, EntryLine(a.str, ":", t, v.str), post)
  /\ (IF inLocal THEN globalIni.OnFrame ELSE localIni.OnFrame) = <<>>

\* C8: a line "addr:type:value" with type byte, word or dword and two
\* numbers appends one entry of that address, width and value to the patch
\* being read; with any other type token it appends nothing.
C8_EntryMatchesFields ==
  FirstLoadOfOneSource =>
  \A a \in Numbers, v \in Numbers, t \in TypeTokens, pre \in FieldPre,
     post \in FieldPost, inLocal \in BOOLEAN :
    FieldIni(a, t, v, pre, post, inLocal) =>
      LET mine    == IF TypeCode(t) # 3
                     THEN <<[type |-> TypeCode(t), address |-> a.val, value |-> v.val]>>
                     ELSE <<>>
          entries == EntriesOf(pre) \o mine \o EntriesOf(post)
      IN  onFrame = IF entries = <<>> THEN <<>>
                    ELSE <<[name |-> NameA, entries |-> entries, active |-> TRUE,
                            user_defined |-> inLocal]>>

\* "0x80001234:dword:0x1FFFF" between two other entries became the second
\* of three entries
C8_Witness ==
  /\ FirstLoad
  /\ FieldIni(N_80001234, S_dword, N_0x1FFFF, <<L_dword0>>, <<L_byte>>, FALSE)
  /\ Len(onFrame) = 1 /\ Len(onFrame[1].entries) = 3
  /\ onFrame[1].entries[2] = [type |-> 2, address |-> U32(32768, 4660), value |-> U32(1, 65535)]

\* the entry lines of the inputs that are well formed
WellFormedLines ==
  {EntryLine(a.str, sep, t, v.str) :
     a \in Numbers, sep \in {":", "="}, t \in {S_byte, S_word, S_dword}, v \in Numbers}
  \cup {EntryLine(N_0x10.str, ":", S_word, N_7.str) \o <<":">> \o N_0x1FFFF.str,
        L_good, L_dword0, L_byte, L_equalsFour, L_equalsSecond}

IsMarkerLine(line) == Len(line) > 0 /\ line[1] = "$"

Malformed(line) == ~IsMarkerLine(line) /\ line \notin WellFormedLines

WithoutMalformed(ini) ==
  [ini EXCEPT !.OnFrame = SelectSeq(@, LAMBDA line : ~Malformed(line))]

\* C9: loading ends in the Loaded state whatever the lines are, and builds
\* the collection it builds from the same inis with the malformed entry
\* lines deleted.
C9_MalformedLinesAreDropped ==
  (lastOp \in {"LoadPatches", "Reload"} /\ loads = 1) =>
    /\ lifecycle = "Loaded"
    /\ onFrame = LoadPatchSection(<<>>, WithoutMalformed(globalIni),
                                  WithoutMalformed(localIni))

\* a malformed line between two entries: the patch holds the two entries
C9_Witness ==
  /\ FirstLoad
  /\ \E line \in FieldLines :
       /\ Malformed(line)
       /\ globalIni.OnFrame = FieldSource(<<L_dword0>>, line, <<L_byte>>)
  /\ Len(onFrame) = 1 /\ onFrame[1].entries = <<E_dword0, E_byte>>

\* the writes of every entry of every active patch are among the writes
AppliesActive ==
  \A i \in 1..Len(onFrame) :
    onFrame[i].active =>
      \A j \in 1..Len(onFrame[i].entries) :
        \E n \in 1..Len(Writes) : <<Writes[n]>> = EntryWrite(onFrame[i].entries[j])

\* the tick is about to be called with the guest in a safe state
SafeInvocation == lastOp # "ApplyFramePatches" /\ MSR.DR /\ MSR.IR /\ SaneChain

\* C11: when the scheduler calls the tick again after every false return and
\* the guest is in a safe state at infinitely many of the calls, a loaded
\* engine's tick eventually returns true and writes the active patches; and
\* a tick's result is the guest's safety at the call, however many false
\* returns came before it.
C11_RetryEventuallySucceeds ==
  /\ ([]<>SafeInvocation) =>
       ((lifecycle = "Loaded") ~>
          (TickReturned(TRUE) /\ lifecycle = "Loaded" /\ AppliesActive))
  /\ [](TickReturned(TRUE) \/ TickReturned(FALSE)
          => TickReturned(MSR.DR /\ MSR.IR /\ SaneChain))

\* a tick that returned true and wrote after MaxRetries false returns
C11_Witness ==
  /\ Ticked /\ ret.value = TRUE /\ lifecycle = "Loaded"
  /\ retries = MaxRetries
  /\ Writes # <<>>

\* C12: a tick or a lookup, whatever it returns, leaves the patch collection
\* and the speedhack table as they were.
C12_TickAndLookupDoNotMutate ==
  [][lastOp' \in {"ApplyFramePatches", "GetSpeedhackCycles"}
       => (onFrame' = onFrame /\ speedHacks' = speedHacks)]_vars

\* a lookup of an address the loaded table does not hold: the table and the
\* collection are still the loaded ones
C12_Witness ==
  /\ loads = 1 /\ onFrame = FreshPatches /\ speedHacks = FreshSpeedHacks
  /\ onFrame # <<>> /\ DOMAIN speedHacks # {}
  /\ lastOp = "GetSpeedhackCycles" /\ ret.addr \notin DOMAIN speedHacks

\* k copies of a sequence, one after the other
RECURSIVE Copies(_, _)
Copies(seq, k) == IF k = 0 THEN <<>> ELSE Copies(seq, k - 1) \o seq

\* what the last completed lifecycle operation produced: nothing after
\* Shutdown, and after a load everything loaded since the last clearing
LastLifecycleResult ==
  IF lifecycle = "Idle" THEN <<>> ELSE Copies(FreshPatches, loads)

\* C13: with Load, Shutdown and Reload run as whole operations between ticks,
\* the collection a tick finds is the complete result of the last of them,
\* and a tick that returns true applies that collection.
C13_TickSeesLastLifecycleResult ==
  LET last == LastLifecycleResult
  IN  /\ onFrame = last
      /\ TickReturned(TRUE) =>
           \E f \in FallOffChoices(last) : Writes = ApplyPatches(last, f)

\* a true tick after a second load wrote the entries of both loads
C13_Witness ==
  /\ TickReturned(TRUE) /\ lifecycle = "Loaded" /\ loads = 2
  /\ \E i \in 1..Len(FreshPatches) : FreshPatches[i].active
  /\ Len(Writes) >= 2

IsProbe(c) ==
  c.op \in {"HostIsRAMAddress", "HostIsInstructionRAMAddress", "HostRead_U32"}

\* the RAM-validity queries and memory reads of the last operation
Probes == SelectSeq(trace, IsProbe)

\* C14: with data or instruction translation off, the tick returns false and
\* has made no RAM-validity query and no guest memory read.
C14_FlagsOffNoProbe ==
  (Ticked /\ (~MSR.DR \/ ~MSR.IR)) => (ret.value = FALSE /\ Probes = <<>>)

\* a tick with data translation off over a stack the probe would accept,
\* with an enabled patch loaded
C14_Witness ==
  /\ TickReturned(FALSE) /\ ~MSR.DR /\ MSR.IR /\ SaneChain
  /\ \E i \in 1..Len(onFrame) : onFrame[i].active

\* the operations of the interpreter runs of the last operation, in order
RunOps == [n \in 1..Len(Runs) |-> Runs[n].op]

\* C15: a tick runs the two code interpreters exactly when it returns true:
\* then the Gecko handler once and after it Action Replay once, and no patch
\* write follows an interpreter run.
C15_InterpretersRunIffTrue ==
  Ticked =>
    /\ RunOps = IF ret.value THEN <<"Gecko::RunCodeHandler", "ActionReplay::RunAllActive">>
                ELSE <<>>
    /\ \A m, n \in 1..Len(trace) :
         (IsRun(trace[m]) /\ IsWrite(trace[n])) => n < m

\* a true tick that wrote the entries of two patches before the two runs
C15_Witness ==
  /\ TickReturned(TRUE)
  /\ Len(Writes) >= 3
  /\ Len(Runs) = 2

\* an ini without OnFrame lines, with the enabled list of ini
NoLines(ini) == [ini EXCEPT !.OnFrame = <<>>]

\* the patches of the default source alone, and of the override source
\* alone, each under the override's enabled list
DefaultPatches == LoadPatchSection(<<>>, globalIni, NoLines(localIni))

OverridePatches == LoadPatchSection(<<>>, NoLines(globalIni), localIni)

\* the addresses the entries of a patch write
AddressesOf(patch) == {patch.entries[j].address : j \in 1..Len(patch.entries)}

\* the last write of ws at address a
LastWriteAt(ws, a) ==
  ws[CHOOSE n \in 1..Len(ws) :
       ws[n].addr = a /\ \A m \in (n + 1)..Len(ws) : ws[m].addr # a]

\* ws holds the writes of patch p and, somewhere after them, those of q
WritesInOrder(ws, p, q) ==
  LET wp == EntryWrites(p.entries, 1)
      wq == EntryWrites(q.entries, 1)
  IN  \E m, n \in 1..Len(ws) :
        /\ m + Len(wp) <= n /\ n + Len(wq) - 1 <= Len(ws)
        /\ SubSeq(ws, m, m + Len(wp) - 1) = wp
        /\ SubSeq(ws, n, n + Len(wq) - 1) = wq

\* C16: after one load the collection is the default source's patches, in
\* order, and then the override source's, all marked with their source; a
\* default and an override patch of one enabled name are both there, and a
\* true tick writes the default one's entries and later the override one's,
\* so that where no later patch writes, the last value at an address of
\* both is the override's.
C16_DefaultThenOverride ==
  (lifecycle = "Loaded" /\ loads = 1) =>
    /\ LET default == DefaultPatches
       IN  /\ onFrame = default \o OverridePatches
           /\ \A i \in 1..Len(onFrame) : onFrame[i].user_defined = (i > Len(default))
    /\ TickReturned(TRUE) =>
         \A i, k \in 1..Len(onFrame) :
           ( /\ ~onFrame[i].user_defined /\ onFrame[k].user_defined
             /\ onFrame[i].name = onFrame[k].name /\ onFrame[i].active
             /\ onFrame[i].entries # <<>> /\ onFrame[k].entries # <<>> ) =>
             /\ onFrame[k].active
             /\ WritesInOrder(Writes, onFrame[i], onFrame[k])
             /\ \A a \in AddressesOf(onFrame[i]) \cap AddressesOf(onFrame[k]) :
                  (\A n \in (k + 1)..Len(onFrame) : a \notin AddressesOf(onFrame[n])) =>
                    LastWriteAt(Writes, a) = LastWriteAt(EntryWrites(onFrame[k].entries, 1), a)

\* patch A of the default source writes a byte at 0x80001234, patch A of the
\* override source the dword 7: the last write there is the dword 7
C16_Witness ==
  /\ TickReturned(TRUE) /\ lifecycle = "Loaded" /\ loads = 1
  /\ Len(onFrame) = 2
  /\ onFrame[1].name = NameA /\ ~onFrame[1].user_defined /\ onFrame[1].active
  /\ onFrame[2].name = NameA /\ onFrame[2].user_defined
  /\ Writes[1] = Call("HostWrite_U8", N_80001234.val, U32(0, 255))
  /\ LastWriteAt(Writes, N_80001234.val) = Call("HostWrite_U32", N_80001234.val, N_7.val)

\* the one write an entry stands for: its width's write, at its address, of
\* its value modulo 2^8, modulo 2^16, or whole
WriteFor(e) ==
  [op    |-> IF e.type = 0 THEN "HostWrite_U8"
             ELSE IF e.type = 1 THEN "HostWrite_U16" ELSE "HostWrite_U32",
   addr  |-> e.address,
   value |-> IF e.type = 0 THEN <<0, e.value[2] % 256>>
             ELSE IF e.type = 1 THEN <<0, e.value[2]>> ELSE e.value]

\* the entries of the patches a tick applies, in order, where sel[i] says
\* whether the patch at i is applied
RECURSIVE AppliedEntries(_, _, _)
AppliedEntries(patches, i, sel) ==
  IF i > Len(patches) THEN <<>>
  ELSE (IF sel[i] THEN patches[i].entries ELSE <<>>) \o AppliedEntries(patches, i + 1, sel)

\* the selections a tick can make: the active patches, the music-off
\* patch when the setting is on, and any of the other inactive ones
Selections(patches) ==
  {[i \in 1..Len(patches) |->
      \/ patches[i].active
      \/ (bBrawlMusicOff /\ patches[i].name = MusicOffName)
      \/ i \in S] : S \in SUBSET FallsOff(patches)}

\* C17: a true tick issues, for each entry of each patch it applies, one
\* write: an 8-bit write of value mod 2^8 for a byte entry, a 16-bit write of
\* value mod 2^16 for a word entry, a 32-bit write of the value for a dword
\* entry, at the entry's address.
C17_OneTruncatedWritePerEntry ==
  TickReturned(TRUE) =>
    \E sel \in Selections(onFrame) :
      LET es == AppliedEntries(onFrame, 1, sel)
      IN  Writes = [n \in 1..Len(es) |-> WriteFor(es[n])]

\* 0x1FF was written as the byte 0xFF and 0x1FFFF as the word 0xFFFF
C17_Witness ==
  /\ TickReturned(TRUE)
  /\ Len(Writes) >= 2
  /\ Writes[1] = Call("HostWrite_U8", N_80001234.val, U32(0, 255))
  /\ Writes[2] = Call("HostWrite_U16", N_16.val, U32(0, 65535))
  /\ \E n \in 1..Len(Writes) : Writes[n].op = "HostWrite_U32"

\* the patches the text of ApplyPatches means to apply: the active ones and
\* the music-off patch when the setting is on
IntendedSelection(patches) ==
  [i \in 1..Len(patches) |->
     patches[i].active \/ (bBrawlMusicOff /\ patches[i].name = MusicOffName)]

\* C18: on a true tick an inactive patch is written exactly when the
\* music-off setting is on and its name is "[P+] Music Off"; no other
\* inactive patch is written.
C18_InactiveWrittenIffMusicOverride ==
  TickReturned(TRUE) =>
    LET es == AppliedEntries(onFrame, 1, IntendedSelection(onFrame))
    IN  Writes = [n \in 1..Len(es) |-> WriteFor(es[n])]

\* how many times w occurs in ws
Count(ws, w) == Cardinality({n \in 1..Len(ws) : ws[n] = w})

\* C19: after k loads in a row the collection is k copies of what one load
\* builds, one after the other, and the speedhack table is what one load
\* builds; a true tick then issues the write of every entry of an active
\* patch k times for each time one load's active entries issue it.
C19_LoadAppends ==
  lifecycle = "Loaded" =>
    /\ onFrame = Copies(FreshPatches, loads)
    /\ speedHacks = FreshSpeedHacks
    /\ TickReturned(TRUE) =>
         LET once == ActiveWritesFrom(FreshPatches, 1)
         IN  \A n \in 1..Len(once) :
               Count(Writes, once[n]) >= loads * Count(once, once[n])

\* a true tick after two loads of an ini with an enabled patch and a
\* speedhack: twice the patches, the table of one load
C19_Witness ==
  /\ TickReturned(TRUE) /\ lifecycle = "Loaded" /\ loads = 2
  /\ Len(onFrame) = 2 * Len(FreshPatches)
  /\ \E i \in 1..Len(FreshPatches) :
       /\ FreshPatches[i].active /\ FreshPatches[i].entries # <<>>
       /\ Count(Writes, WriteFor(FreshPatches[i].entries[1])) = 2
  /\ DOMAIN speedHacks # {} /\ speedHacks = FreshSpeedHacks

\* C20: a tick that runs between Reload's Shutdown and its LoadPatches
\* finds the collection and the table empty: it returns true whenever the
\* guest is safe and then issues no patch write, whatever the inis hold.
C20_TickInsideReloadSeesEmpty ==
  reloadPC = "loading" =>
    /\ onFrame = <<>> /\ speedHacks = EmptyMap
    /\ Ticked => (ret.value = (MSR.DR /\ MSR.IR /\ SaneChain) /\ Writes = <<>>)

\* a tick inside the Reload of a loaded engine returned true and wrote
\* nothing, the inis holding an enabled patch with entries before and after
C20_Witness ==
  /\ reloadPC = "loading" /\ everLoaded
  /\ TickReturned(TRUE) /\ Writes = <<>>
  /\ \E i \in 1..Len(FreshPatches) :
       FreshPatches[i].active /\ FreshPatches[i].entries # <<>>

\* the interpreter calls of a load and of a shutdown, written out
ExpectedLoadCalls ==
  << [op |-> "ActionReplay::LoadAndApplyCodes", args |-> <<globalIni, localIni>>],
     [op |-> "Gecko::LoadCodes", args |-> <<globalIni, localIni>>],
     [op |-> "Gecko::SetActiveCodes", args |-> <<"Gecko::LoadCodes">>] >>

ExpectedShutdownCalls ==
  << [op |-> "ActionReplay::ApplyCodes", args |-> <<>>],
     [op |-> "Gecko::Shutdown", args |-> <<>>] >>

\* C21: a load has both interpreters load and activate the codes of the
\* default and the override ini the patches are read from, a shutdown (and
\* the first half of a reload) has both clear theirs; so both hold codes
\* while the engine is loaded and neither does while it is idle.
C21_InterpretersFollowLifecycle ==
  /\ lifecycle = "Loaded" => (arActive /\ geckoActive)
  /\ lifecycle = "Idle" => (~arActive /\ ~geckoActive)
  /\ lastOp = "LoadPatches" => trace = ExpectedLoadCalls
  /\ lastOp = "Shutdown" => trace = ExpectedShutdownCalls
  /\ lastOp = "Reload" => trace = ExpectedShutdownCalls \o ExpectedLoadCalls

\* a Shutdown of an engine that had been loaded
C21_Witness ==
  /\ lastOp = "Shutdown" /\ everLoaded
  /\ ~arActive /\ ~geckoActive
  /\ FreshPatches # <<>>

\* a key of the section whose address string and cycle string are numbers
ParseableKey(kv) == IsSpeedNumber(kv.key) /\ IsSpeedNumber(kv.value)

\* C22: the table a load builds is the table built from the keys whose
\* address and cycle strings parse, in their order: its addresses are those
\* keys' addresses, each with the cycles of the last such key for it; a key
\* that does not parse adds nothing and changes nothing.
C22_UnparseableKeysSkipped ==
  lifecycle = "Loaded" =>
    LET good == SelectSeq(merged, ParseableKey)
    IN  /\ speedHacks = LoadSpeedhacks(EmptyMap, good)
        /\ DOMAIN speedHacks = {SpeedValueOf(good[i].key) : i \in 1..Len(good)}
        /\ \A i \in 1..Len(good) :
             (\A j \in (i + 1)..Len(good) :
                SpeedValueOf(good[j].key) # SpeedValueOf(good[i].key)) =>
               speedHacks[SpeedValueOf(good[i].key)] = SpeedCyclesOf(good[i].value)

\* "16" is set to 0x7FFFFFFF and then "0x10", the same address, has a cycle
\* string that does not parse: the table still holds the first value for it
C22_Witness ==
  /\ lifecycle = "Loaded"
  /\ merged = <<KV(N_16.str, N_7FFFFFFF.str), KV(N_0x10.str, <<"z", "z">>)>>
  /\ speedHacks = MapPut(EmptyMap, N_16.val, 2147483647)

\* the inis are those of the entry family around this line
FieldIniOf(line, pre, post, inLocal) ==
  /\ (IF inLocal THEN localIni.OnFrame ELSE globalIni.OnFrame) = FieldSource(pre, line, post)
  /\ (IF inLocal THEN globalIni.OnFrame ELSE localIni.OnFrame) = <<>>

\* the same inis with another line in its place
WithLine(line, pre, post, inLocal, ini, isLocal) ==
  IF isLocal = inLocal THEN [ini EXCEPT !.OnFrame = FieldSource(pre, line, post)] ELSE ini

\* the one patch A of the entry family, with these entries
PatchAWith(entries, inLocal) ==
  IF entries = <<>> THEN <<>>
  ELSE <<[name |-> NameA, entries |-> entries, active |-> TRUE, user_defined |-> inLocal]>>

E_word7 == [type |-> 1, address |-> N_0x10.val, value |-> N_7.val]

\* C23: a line "addr=type:value" loads as the line "addr:type:value" does,
\* whatever the three fields are; of two '=' only the first becomes a
\* separator, so "0x10=word=7" has two fields and is dropped; and a fourth
\* field is ignored, so "0x10=word:7:0x1FFFF" is the word 7 at 0x10.
C23_EqualsNormalisedLikeColon ==
  FirstLoadOfOneSource =>
    \A pre \in FieldPre, post \in FieldPost, inLocal \in BOOLEAN :
      /\ \A a \in NumberStrs, v \in NumberStrs, t \in TypeTokens :
           FieldIniOf(EntryLine(a, "=", t, v), pre, post, inLocal) =>
             onFrame = LoadPatchSection(
                         <<>>,
                         WithLine(EntryLine(a, ":", t, v), pre, post, inLocal, globalIni, FALSE),
                         WithLine(EntryLine(a, ":", t, v), pre, post, inLocal, localIni, TRUE))
      /\ FieldIniOf(L_twoEquals, pre, post, inLocal) =>
           onFrame = PatchAWith(EntriesOf(pre) \o EntriesOf(post), inLocal)
      /\ FieldIniOf(L_equalsFour, pre, post, inLocal) =>
           onFrame = PatchAWith(EntriesOf(pre) \o <<E_word7>> \o EntriesOf(post), inLocal)

\* "0x80001234=dword:0x1FFFF" between two other entries became the second
\* of three entries
C23_Witness ==
  /\ FirstLoad
  /\ FieldIniOf(EntryLine(N_80001234.str, "=", S_dword, N_0x1FFFF.str),
                <<L_dword0>>, <<L_byte>>, TRUE)
  /\ onFrame = PatchAWith(<<E_dword0,
                            [type |-> 2, address |-> N_80001234.val, value |-> N_0x1FFFF.val],
                            E_byte>>, TRUE)

\* the call at position m of the trace is a validity query that address x
\* passed
PassedCheck(m, x) ==
  /\ trace[m].addr = x
  /\ \/ trace[m].op = "HostIsRAMAddress" /\ x \in RAMAddrs
     \/ trace[m].op = "HostIsInstructionRAMAddress" /\ x \in IRAMAddrs

\* the positions of the trace at which guest memory is read
ReadPositions == {n \in 1..Len(trace) : trace[n].op = "HostRead_U32"}

\* C24: every guest memory read of the probe is at an address that passed a
\* validity query earlier in the same probe: the first read is at SP, the
\* second at next_SP + 4 modulo 2^32 after next_SP and that same wrapped
\* address passed the RAM query, the third at the return address after it
\* passed the instruction-RAM query.
C24_ProbeReadsOnlyValidated ==
  Ticked =>
    /\ \A n \in ReadPositions : \E m \in 1..(n - 1) : PassedCheck(m, trace[n].addr)
    /\ LET reads == SelectSeq(trace, LAMBDA c : c.op = "HostRead_U32")
       IN  /\ Len(reads) <= 3
           /\ Len(reads) >= 1 => reads[1].addr = GPR1
           /\ Len(reads) >= 2 =>
                /\ reads[2].addr = Plus4(mem[GPR1])
                /\ \A x \in {mem[GPR1], Plus4(mem[GPR1])} :
                     \E m \in 1..Len(trace) :
                       PassedCheck(m, x) /\ trace[m].op = "HostIsRAMAddress"
           /\ Len(reads) = 3 =>
                /\ reads[3].addr = mem[Plus4(mem[GPR1])]
                /\ reads[3].addr \in IRAMAddrs

\* next_SP is 0xFFFFFFFC: next_SP + 4 wraps to 0, which is validated and
\* then read, and the return address found there is read too
C24_Witness ==
  /\ Ticked /\ MSR.DR /\ MSR.IR
  /\ mem[GPR1] = TopMem
  /\ \E n \in ReadPositions : trace[n].addr = LowMem /\ n > 1 /\ PassedCheck(n - 1, LowMem)
  /\ Cardinality(ReadPositions) = 3

\* the position of the first marker line after position i, or one past the
\* end of the lines
NextMarker(ls, i) ==
  IF \E j \in (i + 1)..Len(ls) : IsMarkerLine(ls[j])
  THEN CHOOSE j \in (i + 1)..Len(ls) :
         IsMarkerLine(ls[j]) /\ \A k \in (i + 1)..(j - 1) : ~IsMarkerLine(ls[k])
  ELSE Len(ls) + 1

\* the entries of the valid entry lines between the marker at position i
\* and the next marker
SegmentEntries(ls, i) ==
  LET between == [k \in 1..(NextMarker(ls, i) - i - 1) |-> ls[i + k]]
      valid   == SelectSeq(between, LAMBDA l : ParseEntryLine(l).ok)
  IN  [k \in 1..Len(valid) |-> ParseEntryLine(valid[k]).entry]

\* name, entries and source of each marker of a source that has a name and
\* at least one valid entry line of its own, in source order
Segments(ls, isLocal) ==
  LET owns(i) == IsMarkerLine(ls[i]) /\ Len(ls[i]) > 1 /\ SegmentEntries(ls, i) # <<>>
      idx     == SelectSeq([i \in 1..Len(ls) |-> i], owns)
  IN  [k \in 1..Len(idx) |->
         [name         |-> SubStrFrom(ls[idx[k]], 2),
          entries      |-> SegmentEntries(ls, idx[k]),
          user_defined |-> isLocal]]

\* name, entries and source of the patches of the collection that have
\* entries
PatchesWithEntries ==
  LET ps == SelectSeq(onFrame, LAMBDA q : q.entries # <<>>)
  IN  [k \in 1..Len(ps) |->
         [name |-> ps[k].name, entries |-> ps[k].entries, user_defined |-> ps[k].user_defined]]

ConfiguredValue(a) == merged[LastOf(KeysFor(a))].value

\* C26: a lookup of a configured address returns the configured value read
\* as a signed 32-bit integer, v below 2^31 and v - 2^32 from 2^31 on, and
\* a lookup of an address configured with 0 returns what a lookup of an
\* address that is not configured returns.
C26_CyclesStoredSigned ==
  (lastOp = "GetSpeedhackCycles" /\ lifecycle = "Loaded") =>
    LET unconfigured == LookupCycles(EmptyMap, ret.addr)
    IN  IF KeysFor(ret.addr) = {}
        THEN ret.cycles = unconfigured
        ELSE LET str == ConfiguredValue(ret.addr)
                 v   == SpeedValueOf(str)
             IN  /\ v[1] < 2^15 => ret.cycles = v[1] * Half + v[2] /\ ret.cycles >= 0
                 /\ v[1] >= 2^15 => ret.cycles = (v[1] - Half) * Half + v[2] /\ ret.cycles < 0
                 /\ ret.cycles = SpeedCyclesOf(str)
                 /\ str = N_0.str => ret.cycles = unconfigured

\* the address is configured with 2^31 and the lookup returns -2^31
C26_Witness ==
  /\ lastOp = "GetSpeedhackCycles" /\ lifecycle = "Loaded"
  /\ merged = <<KV(N_16.str, N_2pow31.str)>>
  /\ ret.addr = N_16.val
  /\ ret.cycles = -2147483647 - 1

====
